---------------------------- MODULE Spec2Model ----------------------------
(* Verification model of the Mahjong Soul game fetcher (src/main.py):      *)
(* the Record Normalizer (extract_row), the Schema Manager (ensure_schema),*)
(* the Deduplicating Inserter (insert_games, insert_games_capped) and the  *)
(* Pagination Engine (fetch_and_store).                                    *)
EXTENDS Integers, Sequences, FiniteSets, TLC

VARIABLES
    raw,        \* normalizer harness: the raw API record handed to extract_row
    rawOverride,\* normalizer harness: the mode_override argument
    row,        \* normalizer harness: what extract_row returned
    npc,        \* normalizer harness: "input" before the call, "done" after
    disk,       \* the committed content of the SQLite file: games, games_new
    work,       \* the content as the open connection sees it (uncommitted too)
    inTx,       \* whether the connection has a transaction open
    spc,        \* position of the process inside ensure_schema
    calls,      \* number of ensure_schema calls started so far
    orig,       \* history: the games table before the first call
    snap,       \* history: the committed games table when a call last returned
    failedAt,   \* history: the statement at which the last failure struck
    rpc,        \* main.py: "main" (arguments being checked), "rejected",
                \* fetch_and_store: "schema", "loop", "done", "crashed",
                \* "interrupted"
    args,       \* the command line: mode, start_ms, end_ms, limit, max_pages,
                \* recent_count, verbose
    current_end,    \* fetch_and_store: the cursor, in milliseconds
    total_inserted, \* fetch_and_store: rows the run counted as inserted
    pages,      \* fetch_and_store: pages ingested so far
    seen_ids,   \* fetch_and_store: identifiers handed to INSERT in this run
    last,       \* what the inserter returned for the last page, and the page
    stop,       \* why the loop was left ("" while it runs)
    rows0,      \* history: number of rows in games when the loop started
    ing,        \* inserter harness: a page ingested twice into one table
    cstep,      \* cursor harness: one cursor update of the pagination loop
    reqs,       \* history: the requests issued, attempt by attempt
    api,        \* the records the remote API holds (when it is modelled)
    rep         \* analysis.py: the compare-levels command

nvars == <<raw, rawOverride, row, npc>>
svars == <<disk, work, inTx, spc, calls, orig, snap, failedAt>>

rvars == <<rpc, args, current_end, total_inserted, pages, seen_ids, last, stop,
           rows0>>

vars == <<raw, rawOverride, row, npc, disk, work, inTx, spc, calls, orig, snap,
          failedAt, rpc, args, current_end, total_inserted, pages, seen_ids,
          last, stop, rows0, ing, cstep, reqs, api, rep>>

\* the harness and environment variables a fetcher step leaves alone
xvars == <<ing, cstep, reqs, api, rep>>

-----------------------------------------------------------------------------
(* Loosely typed JSON values.  A field of a payload is a tagged value:     *)
(*   k = "int"    an integer (v)                                           *)
(*   k = "absent" the key is not in the object                             *)
(*   k = "null"   the key is present with JSON null (Python None)          *)
(*   k = "bad"    a value int() cannot coerce (a non-numeric string)       *)
I(n) == [k |-> "int", v |-> n]
Absent == [k |-> "absent", v |-> 0]
Null == [k |-> "null", v |-> 0]
Bad == [k |-> "bad", v |-> 0]

\* dict.get(key): None for an absent key and for a null value
IsNone(x) == x.k \in {"absent", "null"}

\* int(x) succeeds exactly on integers; int(None) and int("abc") raise
CanInt(x) == x.k = "int"

\* dict.get(key, 0): the default replaces an absent key only
GetOrZero(x) == IF x.k = "absent" THEN I(0) ELSE x

\* a row that was not produced (extract_row returned None)
Rejected == [ok |-> FALSE]

Slots == 1..4

-----------------------------------------------------------------------------
(* extract_row: rank computation, src/main.py lines 239-248                *)

\* tuple comparison of two (-score, index) keys, as Python compares tuples
KeyLess(a, b) == a[1] < b[1] \/ (a[1] = b[1] /\ a[2] < b[2])

\* a reversed index in the tie key: later slots win ties
TieKeyLaterWins(scores, s) == <<-scores[s], -(s - 1)>>

\* tie_keys.append((-scores[i], i)); slot s is Python index s - 1
TieKey(scores, s) == <<-scores[s], s - 1>>

RECURSIVE InsertByKey(_, _, _)
\* s put into the sorted list after every element whose key is not greater
InsertByKey(scores, sorted, s) ==
    IF sorted = <<>> THEN <<s>>
    ELSE IF KeyLess(TieKey(scores, s), TieKey(scores, Head(sorted)))
    THEN <<s>> \o sorted
    ELSE <<Head(sorted)>> \o InsertByKey(scores, Tail(sorted), s)

\* order = sorted(range(4), key=lambda i: tie_keys[i]): a stable ascending
\* sort of the slots by their keys (for four items, an insertion sort)
Order(scores) ==
    InsertByKey(scores,
        InsertByKey(scores,
            InsertByKey(scores,
                InsertByKey(scores, <<>>, 1), 2), 3), 4)

\* for pos, idx in enumerate(order): ranks[idx] = pos + 1
Ranks(scores) ==
    LET order == Order(scores)
    IN  [s \in Slots |-> CHOOSE pos \in Slots : order[pos] = s]

-----------------------------------------------------------------------------
(* extract_row, src/main.py lines 216-263                                  *)

\* gid = game.get("_id") or game.get("uuid"); "" stands for None and ""
Gid(game) == IF game.id # "" THEN game.id ELSE game.uuid

\* mode = int(modeId) if modeId is not None else mode_override (or None)
ModeOf(game, mode_override) ==
    IF ~IsNone(game.modeId) THEN game.modeId ELSE mode_override

\* the end time is preferred over the start time
StartFieldEndFirst(game) ==
    IF ~IsNone(game.endTime) THEN game.endTime ELSE game.startTime

\* startTime if it is not None, else game["endTime"] (KeyError when absent)
StartField(game) ==
    IF ~IsNone(game.startTime) THEN game.startTime ELSE game.endTime

PlayerOk(p) ==
    /\ p.dict
    /\ CanInt(GetOrZero(p.level))
    /\ CanInt(GetOrZero(p.score))
    /\ CanInt(GetOrZero(p.gradingScore))

\* an item of the page that is not a JSON object (a number, a string, null):
\* game.get raises AttributeError inside the try, extract_row returns None
ExtractRow(game, mode_override) ==
    IF ~game.dict THEN Rejected
    ELSE IF Gid(game) = "" THEN Rejected
    ELSE IF ~CanInt(ModeOf(game, mode_override)) THEN Rejected
    ELSE IF ~CanInt(StartField(game)) THEN Rejected
    ELSE IF Len(game.players) # 4 THEN Rejected
    ELSE IF \E s \in Slots : ~PlayerOk(game.players[s]) THEN Rejected
    ELSE LET levels == [s \in Slots |-> GetOrZero(game.players[s].level).v]
             scores == [s \in Slots |-> GetOrZero(game.players[s].score).v]
             grades == [s \in Slots |-> GetOrZero(game.players[s].gradingScore).v]
         IN  [ok |-> TRUE,
              id |-> Gid(game),
              mode |-> ModeOf(game, mode_override).v,
              startTime |-> StartField(game).v,
              levels |-> levels,
              scores |-> scores,
              grades |-> grades,
              ranks |-> Ranks(scores)]

-----------------------------------------------------------------------------
(* ensure_schema.rank_expr, src/main.py lines 141-150                      *)

\* (CASE WHEN a > b THEN 1 ELSE 0 END) and (CASE WHEN a = b THEN 1 ELSE 0 END)
CaseGt(a, b) == IF a > b THEN 1 ELSE 0
CaseEq(a, b) == IF a = b THEN 1 ELSE 0

RECURSIVE SumTerms(_)
\* " + ".join(terms), evaluated
SumTerms(terms) ==
    IF terms = <<>> THEN 0 ELSE Head(terms) + SumTerms(Tail(terms))

\* equality counted against every other slot, not only the earlier ones
RankExprAllEq(player_idx, scores) ==
    LET NotSelf(j) == j # player_idx
        others == SelectSeq(<<1, 2, 3, 4>>, NotSelf)
        gt_terms == [k \in 1..Len(others) |-> CaseGt(scores[others[k]], scores[player_idx])]
        eq_terms == [k \in 1..Len(others) |-> CaseEq(scores[others[k]], scores[player_idx])]
    IN  1 + SumTerms(gt_terms \o eq_terms)

\* gt_terms over j in range(4), j != i; eq_terms over j in range(i);
\* "(1 + " + " + ".join(gt_terms + eq_terms) + ")"
RankExpr(player_idx, scores) ==
    LET NotSelf(j) == j # player_idx
        Earlier(j) == j < player_idx
        others == SelectSeq(<<1, 2, 3, 4>>, NotSelf)
        earlier == SelectSeq(<<1, 2, 3, 4>>, Earlier)
        gt_terms == [k \in 1..Len(others) |-> CaseGt(scores[others[k]], scores[player_idx])]
        eq_terms == [k \in 1..Len(earlier) |-> CaseEq(scores[earlier[k]], scores[player_idx])]
    IN  1 + SumTerms(gt_terms \o eq_terms)

-----------------------------------------------------------------------------
(* The games table layout, src/main.py lines 43-49 and 63-88               *)

PlayerCols(s) ==
    CASE s = 1 -> [level |-> "player1_level", score |-> "player1_score",
                   gradingScore |-> "player1_gradingScore", rank |-> "player1_rank"]
      [] s = 2 -> [level |-> "player2_level", score |-> "player2_score",
                   gradingScore |-> "player2_gradingScore", rank |-> "player2_rank"]
      [] s = 3 -> [level |-> "player3_level", score |-> "player3_score",
                   gradingScore |-> "player3_gradingScore", rank |-> "player3_rank"]
      [] s = 4 -> [level |-> "player4_level", score |-> "player4_score",
                   gradingScore |-> "player4_gradingScore", rank |-> "player4_rank"]

\* INSERT_COLUMNS: rank grouped with each player
INSERT_COLUMNS ==
    <<"id", "mode", "startTime",
      "player1_level", "player1_score", "player1_gradingScore", "player1_rank",
      "player2_level", "player2_score", "player2_gradingScore", "player2_rank",
      "player3_level", "player3_score", "player3_gradingScore", "player3_rank",
      "player4_level", "player4_score", "player4_gradingScore", "player4_rank">>

\* a CREATE TABLE statement that lists the rank columns after the others
CreateColumnsRanksLast ==
    <<"id", "mode", "startTime",
      "player1_level", "player1_score", "player1_gradingScore",
      "player2_level", "player2_score", "player2_gradingScore",
      "player3_level", "player3_score", "player3_gradingScore",
      "player4_level", "player4_score", "player4_gradingScore",
      "player1_rank", "player2_rank", "player3_rank", "player4_rank">>

\* the column list of the two CREATE TABLE statements (games, games_new)
CreateColumns ==
    <<"id", "mode", "startTime",
      "player1_level", "player1_score", "player1_gradingScore", "player1_rank",
      "player2_level", "player2_score", "player2_gradingScore", "player2_rank",
      "player3_level", "player3_score", "player3_gradingScore", "player3_rank",
      "player4_level", "player4_score", "player4_gradingScore", "player4_rank">>

Range(seq) == {seq[k] : k \in 1..Len(seq)}

NoTable == [exists |-> FALSE, cols |-> <<>>, rows |-> {}]
Table(cols, rows) == [exists |-> TRUE, cols |-> cols, rows |-> rows]

\* the row tuple extract_row returns, laid on INSERT_COLUMNS by the INSERT
RowRecord(r) ==
    [id |-> r.id, mode |-> r.mode, startTime |-> r.startTime,
     player1_level |-> r.levels[1], player1_score |-> r.scores[1],
     player1_gradingScore |-> r.grades[1], player1_rank |-> r.ranks[1],
     player2_level |-> r.levels[2], player2_score |-> r.scores[2],
     player2_gradingScore |-> r.grades[2], player2_rank |-> r.ranks[2],
     player3_level |-> r.levels[3], player3_score |-> r.scores[3],
     player3_gradingScore |-> r.grades[3], player3_rank |-> r.ranks[3],
     player4_level |-> r.levels[4], player4_score |-> r.scores[4],
     player4_gradingScore |-> r.grades[4], player4_rank |-> r.ranks[4]]

ScoresOf(rec) == [s \in Slots |-> rec[PlayerCols(s).score]]
RanksOf(rec) == [s \in Slots |-> rec[PlayerCols(s).rank]]

-----------------------------------------------------------------------------
(* ensure_schema: the migration's SELECT list, src/main.py lines 152-163   *)

ColExpr(name) == [kind |-> "col", name |-> name, idx |-> 0]
RankSql(i) == [kind |-> "rank", name |-> "", idx |-> i]

\* every rank column is re-derived, whether or not the table has it
RankSelectAlwaysDerive(i, existing_set) == RankSql(i)

\* ("playerN_rank" if "playerN_rank" in existing_set else rank_expr(N))
RankSelect(i, existing_set) ==
    IF PlayerCols(i).rank \in existing_set
    THEN ColExpr(PlayerCols(i).rank)
    ELSE RankSql(i)

SelectCols(existing_set) ==
    [k \in 1..Len(INSERT_COLUMNS) |->
        IF \E i \in Slots : INSERT_COLUMNS[k] = PlayerCols(i).rank
        THEN RankSelect(CHOOSE i \in Slots : INSERT_COLUMNS[k] = PlayerCols(i).rank,
                        existing_set)
        ELSE ColExpr(INSERT_COLUMNS[k])]

\* the columns of games a select expression reads
ExprReads(e) ==
    IF e.kind = "col" THEN {e.name}
    ELSE {PlayerCols(s).score : s \in Slots}

\* "no such column": the statement raises sqlite3.OperationalError
SelectFails(existing_set) ==
    \E k \in 1..Len(INSERT_COLUMNS) :
        ~(ExprReads(SelectCols(existing_set)[k]) \subseteq existing_set)

EvalExpr(e, rec) ==
    IF e.kind = "col" THEN rec[e.name]
    ELSE RankExpr(e.idx, ScoresOf(rec))

\* INSERT INTO games_new (INSERT_COLUMNS) SELECT select_cols FROM games
CopiedRow(rec, existing_set) ==
    LET sel == SelectCols(existing_set)
        Pos(c) == CHOOSE k \in 1..Len(INSERT_COLUMNS) : INSERT_COLUMNS[k] = c
    IN  [c \in Range(INSERT_COLUMNS) |-> EvalExpr(sel[Pos(c)], rec)]

CopiedRows(games) ==
    {CopiedRow(rec, Range(games.cols)) : rec \in games.rows}

-----------------------------------------------------------------------------
(* Transactions: sqlite3 connection and the with-block of fetch_and_store  *)

\* the with-block commits what the connection holds when an exception leaves it
AfterExceptionCommit(committed, uncommitted) == uncommitted

\* "with sqlite3.connect(db_path) as conn": an exception leaving the block
\* rolls the open transaction back; a killed process is rolled back by the
\* journal on the next open
AfterException(committed, uncommitted) == committed

\* a statement run on the connection: outside a transaction it is committed
\* at once (autocommit), inside one it stays in the connection's view
Exec(newWork) ==
    /\ work' = newWork
    /\ disk' = IF inTx THEN disk ELSE newWork

-----------------------------------------------------------------------------
(* insert_games, src/main.py lines 266-325                                 *)

\* INSERT OR REPLACE: the stored row is overwritten and counted
ExecInsertReplace(rows, r) ==
    [rows |-> {x \in rows : x.id # r.id} \cup {RowRecord(r)}, rowcount |-> 1]

\* cur.execute("INSERT OR IGNORE INTO games (INSERT_COLUMNS) VALUES (...)", row):
\* the table afterwards and cur.rowcount (0 when the primary key is taken)
ExecInsert(rows, r) ==
    IF \E x \in rows : x.id = r.id
    THEN [rows |-> rows, rowcount |-> 0]
    ELSE [rows |-> rows \cup {RowRecord(r)}, rowcount |-> 1]

\* every executed INSERT is counted as a new row
CountedAlways(rowcount) == TRUE

\* if cur.rowcount > 0 (lines 306 and 391)
Counted(rowcount) == rowcount > 0

RECURSIVE InsertLoop(_, _, _, _, _)
\* the for-loop of insert_games from item k on; acc = [rows, ok, skipped,
\* raised].  For an item that is not an object extract_row returns None; in
\* verbose mode line 291 then calls g.get outside any try and the
\* AttributeError leaves insert_games before conn.commit()
InsertLoop(games, k, mode_override, verbose, acc) ==
    IF k > Len(games) THEN acc
    ELSE LET r == ExtractRow(games[k], mode_override)
         IN  IF ~r.ok
             THEN IF verbose /\ ~games[k].dict
                  THEN [acc EXCEPT !.raised = TRUE]
                  ELSE InsertLoop(games, k + 1, mode_override, verbose,
                                  [acc EXCEPT !.skipped = @ + 1])
             ELSE LET done == ExecInsert(acc.rows, r)
                  IN  IF Counted(done.rowcount)
                      THEN InsertLoop(games, k + 1, mode_override, verbose,
                                      [acc EXCEPT !.rows = done.rows, !.ok = @ + 1])
                      ELSE InsertLoop(games, k + 1, mode_override, verbose,
                                      [acc EXCEPT !.rows = done.rows,
                                                  !.skipped = @ + 1])

\* returns (ok, skipped) and the table content it committed; raised: an
\* exception left the function, rows is then the uncommitted content
InsertGames(rows, games, mode_override, verbose) ==
    InsertLoop(games, 1, mode_override, verbose,
               [rows |-> rows, ok |-> 0, skipped |-> 0, raised |-> FALSE])

-----------------------------------------------------------------------------
(* insert_games_capped, src/main.py lines 328-411                          *)

\* the cap is noticed one insertion late
CapHitLate(remaining) == remaining < 0

\* if remaining <= 0: cap_reached = True; break (lines 394-396)
CapHit(remaining) == remaining <= 0

RECURSIVE CappedLoop(_, _, _, _)
\* the for-loop from item k on; acc = [rows, inserted, skipped, processed,
\* cap_reached, remaining, seen, raised].  Line 358 calls g.get outside any
\* try: an item that is not an object raises AttributeError there
CappedLoop(games, k, mode_override, acc) ==
    IF k > Len(games) THEN acc
    ELSE IF ~games[k].dict
    THEN [acc EXCEPT !.processed = @ + 1, !.raised = TRUE]
    ELSE LET gid == Gid(games[k])
             a1 == [acc EXCEPT !.processed = @ + 1]
             r == ExtractRow(games[k], mode_override)
         IN  IF gid # "" /\ gid \in acc.seen
             THEN CappedLoop(games, k + 1, mode_override,
                             [a1 EXCEPT !.skipped = @ + 1])
             ELSE IF ~r.ok
             THEN CappedLoop(games, k + 1, mode_override,
                             [a1 EXCEPT !.skipped = @ + 1])
             ELSE LET done == ExecInsert(acc.rows, r)
                      a2 == [a1 EXCEPT !.rows = done.rows, !.seen = @ \cup {gid}]
                  IN  IF Counted(done.rowcount)
                      THEN IF CapHit(acc.remaining - 1)
                           THEN [a2 EXCEPT !.inserted = @ + 1,
                                           !.remaining = @ - 1,
                                           !.cap_reached = TRUE]
                           ELSE CappedLoop(games, k + 1, mode_override,
                                           [a2 EXCEPT !.inserted = @ + 1,
                                                      !.remaining = @ - 1])
                      ELSE CappedLoop(games, k + 1, mode_override,
                                      [a2 EXCEPT !.skipped = @ + 1])

\* returns (inserted, skipped, cap_reached, processed), the table content it
\* committed and the seen_ids set it extended in place; raised as above.
\* The verbose flag changes only what is printed.
InsertGamesCapped(rows, games, mode_override, remaining, seen) ==
    CappedLoop(games, 1, mode_override,
               [rows |-> rows, inserted |-> 0, skipped |-> 0, processed |-> 0,
                cap_reached |-> FALSE, remaining |-> remaining, seen |-> seen,
                raised |-> FALSE])

-----------------------------------------------------------------------------
(* to_ms, to_seconds and the cursor step, src/main.py lines 189-196 and    *)
(* 484-511                                                                 *)

\* The source threshold is 10^12 with 1000 ms per second.  The checker's
\* integers are 32 bits wide, so the threshold is modelled three decades of
\* seconds lower (10^6 ms = 1000 s); it stays a multiple of 1000 and every
\* product by 1000 the code forms below it stays in range.
Threshold == 1000000
MsPerSecond == 1000

to_ms(x) == IF x >= Threshold THEN x ELSE x * MsPerSecond

to_seconds(x) == IF x >= Threshold THEN x \div MsPerSecond ELSE x

\* the field min() reads for one game: startTime, else endTime, else 0
CursorField(g) ==
    IF ~IsNone(g.startTime) THEN g.startTime
    ELSE IF g.endTime.k = "absent" THEN I(0) ELSE g.endTime

\* for g in data if isinstance(g, dict)
DictItems(data) == SelectSeq(data, LAMBDA g : g.dict)

RECURSIVE MinFrom(_, _, _)
MinFrom(data, k, m) ==
    IF k > Len(data) THEN m
    ELSE MinFrom(data, k + 1,
                 IF CursorField(data[k]).v < m THEN CursorField(data[k]).v ELSE m)

\* oldest_start_sec = min(int(...) for g in data if isinstance(g, dict))
OldestStartSec(data) ==
    LET items == DictItems(data)
    IN  MinFrom(items, 2, CursorField(items[1]).v)

\* how the min() of lines 486-489 ends: "ok"; "ValueError" for an empty
\* sequence or a string int() cannot parse (caught at line 490); "TypeError"
\* for int(None), a null endTime under a missing startTime (not caught).
\* The first item in page order that cannot be converted decides.
MinOutcome(data) ==
    LET items == DictItems(data)
        broken == {k \in 1..Len(items) : CursorField(items[k]).k # "int"}
    IN  IF items = <<>> THEN "ValueError"
        ELSE IF broken = {} THEN "ok"
        ELSE LET k == CHOOSE i \in broken : \A j \in broken : i <= j
             IN  IF CursorField(items[k]).k = "bad" THEN "ValueError"
                 ELSE "TypeError"

\* the cursor is left where it is
NextEndStuck(cur, oldest_start_sec) == cur

\* lines 494-511: the proposed boundary and the progress guard
NextEnd(cur, oldest_start_sec) ==
    LET next_end_ms == to_ms(oldest_start_sec) - 1
        current_end_sec == to_seconds(cur)
        proposed_end_sec == to_seconds(next_end_ms)
        fallback_next == current_end_sec * MsPerSecond - MsPerSecond
    IN  IF proposed_end_sec >= current_end_sec
        THEN IF fallback_next >= cur THEN cur - MsPerSecond ELSE fallback_next
        ELSE next_end_ms

-----------------------------------------------------------------------------
(* fetch_and_store, src/main.py lines 414-525                              *)

MaxIter == 4

NoPage == [len |-> 0, inserted |-> 0, skipped |-> 0, processed |-> 0,
           cap |-> FALSE, page |-> <<>>]

Recent == args.recent_count > 0

\* remaining = max(0, recent_count - total_inserted)
Remaining ==
    IF args.recent_count - total_inserted > 0
    THEN args.recent_count - total_inserted ELSE 0

Leave(why) ==
    /\ rpc' = "done"
    /\ stop' = why

\* lines 427-430, once ensure_schema has returned
LoopStart ==
    /\ rpc = "schema"
    /\ spc = "returned"
    /\ rpc' = "loop"
    /\ pages' = 0
    /\ total_inserted' = 0
    /\ current_end' = args.end_ms
    /\ seen_ids' = {}
    /\ rows0' = Cardinality(disk.games.rows)
    /\ UNCHANGED <<args, last, stop>>
    /\ UNCHANGED svars

\* ensure_schema raised: the exception leaves fetch_and_store
SchemaAbort ==
    /\ rpc = "schema"
    /\ spc = "failed"
    /\ rpc' = "crashed"
    /\ stop' = "schema"
    /\ UNCHANGED <<args, current_end, total_inserted, pages, seen_ids, last, rows0>>
    /\ UNCHANGED svars

\* lines 445-455: the request and its one retry both raise
RequestFails ==
    /\ Leave("retry failed")
    /\ UNCHANGED <<args, current_end, total_inserted, pages, seen_ids, last, rows0>>
    /\ UNCHANGED svars

\* lines 457-459: the answer is not a list, or an empty one
EmptyPage ==
    /\ Leave("no more data")
    /\ UNCHANGED <<args, current_end, total_inserted, pages, seen_ids, last, rows0>>
    /\ UNCHANGED svars

\* an exception leaves fetch_and_store: main returns 1 (lines 568-570)
Crash(why) ==
    /\ rpc' = "crashed"
    /\ stop' = why

\* lines 484-520, after the page was inserted: the boundary, the progress
\* guard, the start boundary and the page cap
Advance(data) ==
    IF MinOutcome(data) = "ValueError"
    THEN Leave("no oldest startTime") /\ UNCHANGED current_end
    ELSE IF MinOutcome(data) = "TypeError"
    THEN Crash("min") /\ UNCHANGED current_end
    ELSE LET next_end_ms == NextEnd(current_end, OldestStartSec(data))
         IN  IF next_end_ms < args.start_ms
             THEN Leave("start boundary") /\ UNCHANGED current_end
             ELSE /\ current_end' = next_end_ms
                  /\ IF args.max_pages > 0 /\ pages' >= args.max_pages
                     THEN Leave("max pages")
                     ELSE UNCHANGED <<rpc, stop>>

\* the inserter raised before its commit: the exception leaves the with
\* block of line 425, which rolls the page's rows back
InserterRaised(uncommitted) ==
    /\ disk' = AfterException(disk, uncommitted)
    /\ work' = disk'
    /\ Crash("inserter")
    /\ UNCHANGED <<current_end, total_inserted, pages, seen_ids, last>>

\* lines 461-474: a page in target-count mode
IngestCapped(data) ==
    LET res == InsertGamesCapped(work.games.rows, data, I(args.mode), Remaining,
                                 seen_ids)
    IN  IF res.raised
        THEN InserterRaised([work EXCEPT !.games.rows = res.rows])
        ELSE /\ work' = [work EXCEPT !.games.rows = res.rows]
             /\ disk' = work'
             /\ seen_ids' = res.seen
             /\ total_inserted' = total_inserted + res.inserted
             /\ pages' = pages + 1
             /\ last' = [len |-> Len(data), inserted |-> res.inserted,
                         skipped |-> res.skipped, processed |-> res.processed,
                         cap |-> res.cap_reached, page |-> data]
             /\ IF res.cap_reached
                THEN Leave("target reached") /\ UNCHANGED current_end
                ELSE Advance(data)

\* lines 475-482: a page in window mode
IngestWindow(data) ==
    LET res == InsertGames(work.games.rows, data, I(args.mode), args.verbose)
    IN  IF res.raised
        THEN InserterRaised([work EXCEPT !.games.rows = res.rows])
        ELSE /\ work' = [work EXCEPT !.games.rows = res.rows]
             /\ disk' = work'
             /\ seen_ids' = seen_ids
             /\ total_inserted' = total_inserted + res.ok
             /\ pages' = pages + 1
             /\ last' = [len |-> Len(data), inserted |-> res.ok,
                         skipped |-> res.skipped, processed |-> Len(data),
                         cap |-> FALSE, page |-> data]
             /\ Advance(data)

IngestPage(data) ==
    /\ pages < MaxIter
    /\ IF Recent THEN IngestCapped(data) ELSE IngestWindow(data)
    /\ UNCHANGED <<args, rows0, inTx, spc, calls, orig, snap, failedAt>>

\* the while condition (line 432) and the target test at the loop head
\* (lines 435-439)
LoopLeft ==
    /\ Leave(IF current_end < args.start_ms THEN "window" ELSE "target reached")
    /\ UNCHANGED <<args, current_end, total_inserted, pages, seen_ids, last, rows0>>
    /\ UNCHANGED svars

\* one iteration of the while loop for an answer of the API
Iterate(answers) ==
    /\ rpc = "loop"
    /\ IF current_end < args.start_ms \/ (Recent /\ Remaining <= 0)
       THEN LoopLeft
       ELSE \/ RequestFails
            \/ EmptyPage
            \/ \E data \in answers : IngestPage(data)

-----------------------------------------------------------------------------
(* ensure_schema, src/main.py lines 62-166, statement by statement         *)

MidMigration == {"drop_new", "begin", "create_new", "copy", "drop_old",
                 "rename", "commit"}

\* lines 90-109: the table is missing, matches, or must be migrated
SchemaCreate ==
    /\ spc = "idle"
    /\ ~work.games.exists
    /\ work' = [work EXCEPT !.games = Table(CreateColumns, {})]
    /\ disk' = work'
    /\ snap' = work'.games
    /\ spc' = "returned"
    /\ UNCHANGED <<inTx, calls, orig, failedAt>>

SchemaMatches ==
    /\ spc = "idle"
    /\ work.games.exists
    /\ work.games.cols = INSERT_COLUMNS
    /\ spc' = "returned"
    /\ snap' = disk.games
    /\ UNCHANGED <<disk, work, inTx, calls, orig, failedAt>>

SchemaNeedsMigration ==
    /\ spc = "idle"
    /\ work.games.exists
    /\ work.games.cols # INSERT_COLUMNS
    /\ spc' = "drop_new"
    /\ UNCHANGED <<disk, work, inTx, calls, orig, snap, failedAt>>

\* line 112: DROP TABLE IF EXISTS games_new
DropShadowIfExists ==
    /\ spc = "drop_new"
    /\ Exec([work EXCEPT !.games_new = NoTable])
    /\ spc' = "begin"
    /\ UNCHANGED <<inTx, calls, orig, snap, failedAt>>

\* line 113: BEGIN
Begin ==
    /\ spc = "begin"
    /\ inTx' = TRUE
    /\ spc' = "create_new"
    /\ UNCHANGED <<disk, work, calls, orig, snap, failedAt>>

\* lines 114-138: CREATE TABLE games_new
CreateShadow ==
    /\ spc = "create_new"
    /\ ~work.games_new.exists
    /\ Exec([work EXCEPT !.games_new = Table(CreateColumns, {})])
    /\ spc' = "copy"
    /\ UNCHANGED <<inTx, calls, orig, snap, failedAt>>

\* lines 160-163: INSERT INTO games_new ... SELECT ... FROM games
CopyRows ==
    /\ spc = "copy"
    /\ ~SelectFails(Range(work.games.cols))
    /\ Exec([work EXCEPT !.games_new.rows = CopiedRows(work.games)])
    /\ spc' = "drop_old"
    /\ UNCHANGED <<inTx, calls, orig, snap, failedAt>>

\* the SELECT names a column the legacy table lacks: OperationalError
CopyRaises ==
    /\ spc = "copy"
    /\ SelectFails(Range(work.games.cols))
    /\ disk' = AfterException(disk, work)
    /\ work' = disk'
    /\ inTx' = FALSE
    /\ spc' = "failed"
    /\ failedAt' = spc
    /\ UNCHANGED <<calls, orig, snap>>

\* line 164: DROP TABLE games
DropGames ==
    /\ spc = "drop_old"
    /\ Exec([work EXCEPT !.games = NoTable])
    /\ spc' = "rename"
    /\ UNCHANGED <<inTx, calls, orig, snap, failedAt>>

\* line 165: ALTER TABLE games_new RENAME TO games
RenameShadow ==
    /\ spc = "rename"
    /\ Exec([games |-> work.games_new, games_new |-> NoTable])
    /\ spc' = "commit"
    /\ UNCHANGED <<inTx, calls, orig, snap, failedAt>>

\* line 166: conn.commit()
Commit ==
    /\ spc = "commit"
    /\ disk' = work
    /\ inTx' = FALSE
    /\ snap' = work.games
    /\ spc' = "returned"
    /\ UNCHANGED <<work, calls, orig, failedAt>>

\* the process is interrupted or a statement fails while migrating
Interrupt ==
    /\ spc \in MidMigration
    /\ disk' = AfterException(disk, work)
    /\ work' = disk'
    /\ inTx' = FALSE
    /\ spc' = "failed"
    /\ failedAt' = spc
    /\ UNCHANGED <<calls, orig, snap>>

(* Normalizer harness: one raw record is drawn, extract_row is applied.    *)

MaxScore == 1
MaxGrade == 1

ScoreVals == (0 - MaxScore) .. MaxScore
GradeVals == 0 .. MaxGrade

Player(level, score, grade) ==
    [dict |-> TRUE, level |-> level, score |-> score, gradingScore |-> grade]

\* four-player records: every score vector, levels and grading scores varied
\* per record
FourPlayerGames ==
    { [dict |-> TRUE, id |-> "a", uuid |-> "", modeId |-> I(12), startTime |-> I(1001),
       endTime |-> I(1002),
       players |-> [s \in Slots |-> Player(I(lg[1]), I(sc[s]), I(lg[2]))]] :
         sc \in [Slots -> ScoreVals], lg \in GradeVals \X GradeVals }

NormIdle ==
    /\ raw = [dict |-> TRUE, id |-> "", uuid |-> "", modeId |-> Absent, startTime |-> Absent,
              endTime |-> Absent, players |-> <<>>]
    /\ rawOverride = Absent
    /\ row = Rejected
    /\ npc = "off"

SchemaIdle ==
    /\ disk = [games |-> NoTable, games_new |-> NoTable]
    /\ work = disk
    /\ inTx = FALSE
    /\ spc = "off"
    /\ calls = 0
    /\ orig = NoTable
    /\ snap = NoTable
    /\ failedAt = ""

NoResult == [inserted |-> 0, skipped |-> 0, processed |-> 0, cap |-> FALSE,
             raised |-> FALSE]

IngIdle ==
    ing = [pc |-> "off", capped |-> FALSE, verbose |-> FALSE, mode |-> 12,
           page |-> <<>>, rows |-> {}, before |-> {}, seen |-> {},
           first |-> NoResult, second |-> NoResult]

CursorIdle ==
    cstep = [pc |-> "off", cur |-> 0, oldest |-> 0, start |-> 0, next |-> 0,
             moved |-> FALSE]

ReportIdle ==
    rep = [pc |-> "off", level_a |-> 0, level_b |-> 0, level_bin |-> "level",
           csv |-> FALSE, read |-> FALSE, wrote |-> FALSE, instances |-> 0,
           a_better |-> 0, b_better |-> 0, out |-> {}, exit |-> 0]

EnvIdle ==
    /\ reqs = <<>>
    /\ api = {}

RunIdle ==
    /\ IngIdle
    /\ CursorIdle
    /\ ReportIdle
    /\ EnvIdle
    /\ rpc = "off"
    /\ args = [mode |-> 12, start_ms |-> 0, end_ms |-> 0, limit |-> 0,
               max_pages |-> 0, recent_count |-> 0, verbose |-> FALSE]
    /\ current_end = 0
    /\ total_inserted = 0
    /\ pages = 0
    /\ seen_ids = {}
    /\ last = NoPage
    /\ stop = ""
    /\ rows0 = 0

NormInit ==
    /\ raw \in FourPlayerGames
    /\ rawOverride = Absent
    /\ row = Rejected
    /\ npc = "input"
    /\ SchemaIdle
    /\ RunIdle

Normalize ==
    /\ npc = "input"
    /\ row' = ExtractRow(raw, rawOverride)
    /\ npc' = "done"
    /\ UNCHANGED <<raw, rawOverride>>
    /\ UNCHANGED svars
    /\ UNCHANGED rvars
    /\ UNCHANGED xvars

NormNext == Normalize

SpecNorm == NormInit /\ [][NormNext]_vars

\* C1: extract_row gives slot s the rank 1 + (slots with a strictly greater
\* score) + (earlier slots with an equal score), whatever the levels and
\* grading scores are
C1_RankFormula ==
    npc = "done" =>
        /\ row.ok
        /\ \A s \in Slots :
              row.ranks[s] =
                  1 + Cardinality({j \in Slots : row.scores[j] > row.scores[s]})
                    + Cardinality({j \in Slots : j < s /\ row.scores[j] = row.scores[s]})
        /\ \A s \in Slots :
              (\A j \in Slots \ {s} : row.scores[j] < row.scores[s]) => row.ranks[s] = 1

\* a record with a strict winner in slot 3 and a tie between slots 1 and 2
C1_Witness ==
    /\ npc = "done"
    /\ row.ok
    /\ row.scores[1] = row.scores[2]
    /\ row.scores[3] > row.scores[1]
    /\ row.scores[4] < row.scores[1]
    /\ row.ranks = [s \in Slots |-> CASE s = 1 -> 2 [] s = 2 -> 3 [] s = 3 -> 1 [] s = 4 -> 4]
    /\ row.grades[1] # 0

\* C8: the SQL rank expression of the migration gives every slot the rank
\* extract_row computes from the same scores
C8_MigrationMatchesNormalizer ==
    npc = "done" =>
        \A s \in Slots : RankExpr(s, row.scores) = row.ranks[s]

\* all four scores equal: both give 1, 2, 3, 4 in slot order
C8_Witness ==
    /\ npc = "done"
    /\ row.ok
    /\ \A s \in Slots : row.scores[s] = row.scores[1]
    /\ \A s \in Slots : RankExpr(s, row.scores) = s /\ row.ranks[s] = s

-----------------------------------------------------------------------------
(* Schema harness: a legacy database file is drawn, ensure_schema runs on  *)
(* every process start.                                                    *)

MaxCalls == 2

\* the layout before the rank columns were added
NoRankColumns ==
    <<"id", "mode", "startTime",
      "player1_level", "player1_score", "player1_gradingScore",
      "player2_level", "player2_score", "player2_gradingScore",
      "player3_level", "player3_score", "player3_gradingScore",
      "player4_level", "player4_score", "player4_gradingScore">>

\* the layout that stored endTime (module docstring, line 14), no ranks
EndTimeColumns ==
    <<"id", "mode", "endTime",
      "player1_level", "player1_score", "player1_gradingScore",
      "player2_level", "player2_score", "player2_gradingScore",
      "player3_level", "player3_score", "player3_gradingScore",
      "player4_level", "player4_score", "player4_gradingScore">>

\* the target columns followed by one the target layout does not have
ExtraColumns == INSERT_COLUMNS \o <<"endTime">>

LegacyLayouts ==
    {INSERT_COLUMNS, CreateColumnsRanksLast, NoRankColumns, EndTimeColumns,
     ExtraColumns}

LegacyBase(id, start, scores, ranks) ==
    [id |-> id, mode |-> 12, startTime |-> start, endTime |-> start + 1,
     player1_level |-> 10301, player1_score |-> scores[1],
     player1_gradingScore |-> 5, player1_rank |-> ranks[1],
     player2_level |-> 10302, player2_score |-> scores[2],
     player2_gradingScore |-> 0 - 5, player2_rank |-> ranks[2],
     player3_level |-> 10401, player3_score |-> scores[3],
     player3_gradingScore |-> 7, player3_rank |-> ranks[3],
     player4_level |-> 10301, player4_score |-> scores[4],
     player4_gradingScore |-> 0, player4_rank |-> ranks[4]]

\* rows an earlier version of the fetcher stored; where it stored ranks they
\* follow descending score, ties broken its own way
LegacyPool ==
    {LegacyBase("a", 1002, <<250, 250, 300, 250>>, <<3, 2, 1, 4>>),
     LegacyBase("b", 1001, <<300, 100, 400, 200>>, <<2, 4, 1, 3>>),
     LegacyBase("c", 999, <<250, 250, 250, 250>>, <<1, 2, 3, 4>>)}

Project(rec, cols) == [c \in Range(cols) |-> rec[c]]

LegacyTables ==
    {NoTable} \cup
    {Table(cols, {Project(rec, cols) : rec \in rs}) :
        cols \in LegacyLayouts, rs \in SUBSET LegacyPool}

SchemaInit ==
    /\ NormIdle
    /\ RunIdle
    /\ orig \in LegacyTables
    /\ disk = [games |-> orig, games_new |-> NoTable]
    /\ work = disk
    /\ inTx = FALSE
    /\ spc = "idle"
    /\ calls = 1
    /\ snap = NoTable
    /\ failedAt = ""

\* the next process start calls ensure_schema again
Restart ==
    /\ spc \in {"returned", "failed"}
    /\ calls < MaxCalls
    /\ calls' = calls + 1
    /\ spc' = "idle"
    /\ UNCHANGED <<disk, work, inTx, orig, snap, failedAt>>

SchemaStep ==
    \/ SchemaCreate
    \/ SchemaMatches
    \/ SchemaNeedsMigration
    \/ DropShadowIfExists
    \/ Begin
    \/ CreateShadow
    \/ CopyRows
    \/ CopyRaises
    \/ DropGames
    \/ RenameShadow
    \/ Commit
    \/ Interrupt

SchemaNext ==
    \/ SchemaStep /\ UNCHANGED nvars /\ UNCHANGED rvars /\ UNCHANGED xvars
    \/ Restart /\ UNCHANGED nvars /\ UNCHANGED rvars /\ UNCHANGED xvars

SpecSchema == SchemaInit /\ [][SchemaNext]_vars

BaseColumns == Range(NoRankColumns)

\* new holds old's identifier, mode, start time, levels, scores and grades
SameData(old, new) == \A c \in BaseColumns : new[c] = old[c]

\* C6: whatever statement of the migration is interrupted or fails, the
\* committed database keeps a games table that holds every original record
C6_MigrationAtomic ==
    orig.exists =>
        /\ disk.games.exists
        /\ \A old \in orig.rows :
              \E new \in disk.games.rows :
                  \A c \in Range(orig.cols) \cap Range(disk.games.cols) : new[c] = old[c]

\* interrupted after DROP TABLE games, before the rename: the legacy table
\* and its rows are still what the file holds
C6_Witness ==
    /\ spc = "failed"
    /\ failedAt = "rename"
    /\ orig.rows # {}
    /\ disk.games = orig
    /\ ~disk.games_new.exists

\* C7: a completed migration keeps the number of rows and every row's
\* identifier, mode, start time, levels, scores and grading scores; a rank
\* column the legacy table had is copied, an absent one is derived
C7_MigrationPreservesData ==
    (spc = "returned" /\ orig.exists) =>
        /\ Cardinality(disk.games.rows) = Cardinality(orig.rows)
        /\ \A old \in orig.rows :
              \E new \in disk.games.rows :
                  /\ SameData(old, new)
                  /\ \A s \in Slots :
                        new[PlayerCols(s).rank] =
                            IF PlayerCols(s).rank \in Range(orig.cols)
                            THEN old[PlayerCols(s).rank]
                            ELSE RankExpr(s, ScoresOf(old))

\* a legacy table with rank columns in another order was migrated and a
\* stored rank that the rank expression would not derive is still there
C7_Witness ==
    /\ spc = "returned"
    /\ orig.exists
    /\ orig.cols = CreateColumnsRanksLast
    /\ disk.games.cols = INSERT_COLUMNS
    /\ Cardinality(disk.games.rows) = 3
    /\ \E new \in disk.games.rows :
          new.id = "a" /\ new.player1_rank = 3
                      /\ RankExpr(1, ScoresOf(new)) # new.player1_rank

\* C9 as stated: after a call the games table has exactly eighteen columns
C9_EighteenColumns ==
    spc = "returned" =>
        /\ disk.games.exists
        /\ disk.games.cols = INSERT_COLUMNS
        /\ Len(disk.games.cols) = 18

\* C9, amended: after a call that returned, the games table has exactly the
\* nineteen target columns in target order, and no step of a further call
\* changes the schema or a row
C9_Idempotent ==
    /\ [](spc = "returned" =>
            /\ disk.games.exists
            /\ disk.games.cols = INSERT_COLUMNS
            /\ Len(disk.games.cols) = 19
            /\ disk.games = snap)
    /\ [][snap.exists => (disk' = disk /\ work' = work /\ snap' = snap)]_vars

\* a second call returned on a table the first call had migrated
C9_Witness ==
    /\ spc = "returned"
    /\ calls = 2
    /\ failedAt = ""
    /\ orig.exists
    /\ orig.cols = NoRankColumns
    /\ orig.rows # {}
    /\ disk.games.cols = INSERT_COLUMNS
    /\ disk.games = snap

-----------------------------------------------------------------------------
(* The fetcher: a database file and arguments are drawn, fetch_and_store   *)
(* runs ensure_schema and then the pagination loop against an API that may *)
(* answer anything.                                                        *)

MaxPageLen == 2
MaxRecent == 2
MaxPagesArg == 2

ApiPlayers(scores) ==
    <<Player(I(10301), I(scores[1]), I(5)), Player(I(10302), I(scores[2]), I(0 - 5)),
      Player(I(10401), I(scores[3]), I(7)), Player(Absent, I(scores[4]), Absent)>>

ApiGame(id, modeId, start, scores) ==
    [dict |-> TRUE, id |-> id, uuid |-> "", modeId |-> modeId, startTime |-> start,
     endTime |-> Absent, players |-> ApiPlayers(scores)]

\* the records the API serves: three valid games, a second record under the
\* identifier "a" (other scores, a start time the unit heuristic takes for
\* milliseconds) and a record without identifier
GameA == ApiGame("a", I(12), I(1002), <<250, 250, 300, 250>>)
GameB == ApiGame("b", Absent, I(1001), <<300, 100, 400, 200>>)
GameC == ApiGame("c", I(12), I(999), <<250, 250, 250, 250>>)
GameA2 == ApiGame("a", I(12), I(1000500), <<100, 400, 400, 100>>)
GameNoId == ApiGame("", I(12), I(1001), <<100, 200, 300, 400>>)

ApiGames == {GameA, GameB, GameC, GameA2, GameNoId}

\* the non-empty lists the API may answer with
ApiPages == UNION {[1..n -> ApiGames] : n \in 1..MaxPageLen}

\* a window across the unit threshold and one below it
Windows ==
    {[start_ms |-> 998000, end_ms |-> 1002500],
     [start_ms |-> 998000, end_ms |-> 999500]}

\* the database files a run starts from
StartTables ==
    {NoTable,
     Table(NoRankColumns,
           {Project(rec, NoRankColumns) : rec \in {x \in LegacyPool : x.id # "b"}}),
     Table(CreateColumnsRanksLast,
           {Project(rec, CreateColumnsRanksLast) : rec \in {x \in LegacyPool : x.id = "a"}}),
     Table(EndTimeColumns, {})}

Init ==
    /\ NormIdle
    /\ orig \in StartTables
    /\ disk = [games |-> orig, games_new |-> NoTable]
    /\ work = disk
    /\ inTx = FALSE
    /\ spc = "idle"
    /\ calls = 1
    /\ snap = NoTable
    /\ failedAt = ""
    /\ IngIdle
    /\ CursorIdle
    /\ ReportIdle
    /\ EnvIdle
    /\ rpc = "schema"
    /\ \E w \in Windows, mp \in {0, MaxPagesArg}, rc \in 0..MaxRecent :
          args = [mode |-> 12, start_ms |-> w.start_ms, end_ms |-> w.end_ms,
                  limit |-> MaxPageLen, max_pages |-> mp, recent_count |-> rc,
                  verbose |-> FALSE]
    /\ current_end = 0
    /\ total_inserted = 0
    /\ pages = 0
    /\ seen_ids = {}
    /\ last = NoPage
    /\ stop = ""
    /\ rows0 = 0

Next ==
    \/ rpc = "schema" /\ SchemaStep /\ UNCHANGED nvars /\ UNCHANGED rvars /\ UNCHANGED xvars
    \/ LoopStart /\ UNCHANGED nvars /\ UNCHANGED xvars
    \/ SchemaAbort /\ UNCHANGED nvars /\ UNCHANGED xvars
    \/ Iterate(ApiPages) /\ UNCHANGED nvars /\ UNCHANGED xvars

Spec == Init /\ [][Next]_vars

RankColumns == {PlayerCols(s).rank : s \in Slots}

Ids(rows) == {x.id : x \in rows}

\* the four rank fields of every row of t are 1, 2, 3, 4 in some order
RanksArePermutation(t) ==
    (t.exists /\ RankColumns \subseteq Range(t.cols)) =>
        \A x \in t.rows :
            /\ {RanksOf(x)[s] : s \in Slots} = 1..4
            /\ \A s \in Slots : RanksOf(x)[s] \in 1..4

\* C2: in every state of the games table (committed or inside the open
\* transaction, after page ingestions in either mode and after a migration
\* that derives the rank columns) the ranks of every stored record are a
\* permutation of 1..4
C2_RanksPermutation ==
    /\ RanksArePermutation(disk.games)
    /\ RanksArePermutation(work.games)
    /\ RanksArePermutation(work.games_new)
    /\ (rpc \in {"loop", "done"} => RankColumns \subseteq Range(disk.games.cols))

\* a table without rank columns was migrated (the all-equal record "c" got
\* 1, 2, 3, 4) and a page then added the record "b"
C2_Witness ==
    /\ rpc = "done"
    /\ orig.exists
    /\ orig.cols = NoRankColumns
    /\ \E x \in disk.games.rows : x.id = "c" /\ RanksOf(x) = <<1, 2, 3, 4>>
    /\ \E x \in disk.games.rows : x.id = "b" /\ RanksOf(x) = <<2, 4, 1, 3>>
    /\ total_inserted = 1

\* C10: when the run has ended, the total it reports equals the number of
\* rows it added to the games table
C10_CountFaithful ==
    rpc = "done" =>
        total_inserted = Cardinality(disk.games.rows) - rows0

\* a window-mode run over a table that had rows: the last page had a new
\* record and a skipped one
C10_Witness ==
    /\ rpc = "done"
    /\ ~Recent
    /\ rows0 = 2
    /\ pages = 2
    /\ total_inserted = 1
    /\ last.inserted = 1
    /\ last.skipped = 1
    /\ Cardinality(disk.games.rows) = 3

\* the identifiers the inserter executed an INSERT for among the first k
\* items of a page
Executed(page, k) ==
    {Gid(page[j]) : j \in {i \in 1..k : ExtractRow(page[i], I(args.mode)).ok}}

\* C4: in target-count mode the run never counts or stores more than
\* recent_count new rows; once it has that many it has stopped with the
\* target reached, the item that completed the target is the last one the
\* page processed, no later item left a trace, and no step follows
C4_TargetCount ==
    /\ [](Recent =>
            /\ total_inserted <= args.recent_count
            /\ (rpc \in {"loop", "done"} =>
                    Cardinality(disk.games.rows) - rows0 <= args.recent_count)
            /\ (total_inserted >= args.recent_count =>
                    /\ rpc = "done"
                    /\ stop = "target reached"
                    /\ last.cap
                    /\ last.processed <= last.len)
            /\ (rpc = "done" /\ stop = "target reached" =>
                    total_inserted = args.recent_count))
    /\ [][(Recent /\ rpc = "loop" /\ last'.cap) =>
            LET k == last'.processed
                page == last'.page
            IN  /\ Gid(page[k]) \notin Ids(disk.games.rows)
                /\ Gid(page[k]) \in Ids(disk'.games.rows)
                /\ Ids(disk'.games.rows) \subseteq
                        Ids(disk.games.rows) \cup Executed(page, k)
                /\ seen_ids' \subseteq seen_ids \cup Executed(page, k)
                /\ rpc' = "done"]_vars
    /\ [][rpc # "done"]_vars

\* the target of two was completed by the first item of the second page,
\* whose second item is a new record that was left alone
C4_Witness ==
    /\ rpc = "done"
    /\ stop = "target reached"
    /\ args.recent_count = 2
    /\ total_inserted = 2
    /\ pages = 2
    /\ last.processed = 1
    /\ last.len = 2
    /\ Gid(last.page[2]) # ""
    /\ Gid(last.page[2]) \notin Ids(disk.games.rows)

-----------------------------------------------------------------------------
(* The fetcher against an API whose every page has its oldest timestamp    *)
(* strictly before the end of the window it was asked for.                 *)

ConformingPages ==
    {data \in ApiPages : to_ms(OldestStartSec(data)) < current_end}

LiveNext ==
    \/ rpc = "schema" /\ SchemaStep /\ UNCHANGED nvars /\ UNCHANGED rvars /\ UNCHANGED xvars
    \/ LoopStart /\ UNCHANGED nvars /\ UNCHANGED xvars
    \/ SchemaAbort /\ UNCHANGED nvars /\ UNCHANGED xvars
    \/ Iterate(ConformingPages) /\ UNCHANGED nvars /\ UNCHANGED xvars

\* the process keeps running: a started statement, request or page is
\* carried through
LiveSpec == Init /\ [][LiveNext]_vars /\ WF_vars(LiveNext)

\* C5: with such pages the loop ingests fewer than MaxIter pages and the run
\* ends, also when all records of a page share one timestamp
C5_Terminates ==
    /\ [](pages < MaxIter)
    /\ <>(rpc \in {"done", "crashed"})

\* the second page held two different records with one timestamp; the loop
\* moved on past it, asked for a further page and ended when none came
C5_Witness ==
    /\ rpc = "done"
    /\ stop = "no more data"
    /\ pages = 2
    /\ last.len = 2
    /\ last.page[1] # last.page[2]
    /\ CursorField(last.page[1]) = CursorField(last.page[2])

-----------------------------------------------------------------------------
(* Inserter harness: a table, a page, and the same page ingested again.    *)

\* --mode ... choices=[9, 12, 16] (line 201)
KnownModes == {9, 12, 16}

\* items one bad field away from a valid record, and an item that is not an
\* object at all
GameThree == [ApiGame("d", I(12), I(1000), <<1, 2, 3, 4>>) EXCEPT
                 !.players = SubSeq(@, 1, 3)]
GameBadScore == [ApiGame("e", I(12), I(1000), <<1, 2, 3, 4>>) EXCEPT
                    !.players[2].score = Bad]
GameOddMode == ApiGame("f", I(11), I(1000), <<4, 3, 2, 1>>)
NonObject == [ApiGame("", Absent, Absent, <<0, 0, 0, 0>>) EXCEPT !.dict = FALSE]

HarnessGames ==
    {GameA, GameB, GameA2, GameNoId, GameThree, GameBadScore, GameOddMode,
     NonObject}

HarnessPages == UNION {[1..n -> HarnessGames] : n \in 1..MaxPageLen}

\* the target-layout tables the ingestion of API records can have produced
IngestedTables ==
    {{RowRecord(ExtractRow(g, I(12))) : g \in gs} : gs \in SUBSET {GameA2, GameB}}

IngInit ==
    /\ NormIdle
    /\ SchemaIdle
    /\ CursorIdle
    /\ ReportIdle
    /\ EnvIdle
    /\ rpc = "off"
    /\ args = [mode |-> 12, start_ms |-> 0, end_ms |-> 0, limit |-> 0,
               max_pages |-> 0, recent_count |-> 0, verbose |-> FALSE]
    /\ current_end = 0
    /\ total_inserted = 0
    /\ pages = 0
    /\ seen_ids = {}
    /\ last = NoPage
    /\ stop = ""
    /\ rows0 = 0
    /\ \E t \in IngestedTables, page \in HarnessPages, capped \in BOOLEAN,
          verbose \in BOOLEAN, mode \in KnownModes :
          ing = [pc |-> "fresh", capped |-> capped, verbose |-> verbose,
                 mode |-> mode, page |-> page, rows |-> t, before |-> t,
                 seen |-> {}, first |-> NoResult, second |-> NoResult]

\* one call of insert_games, or of insert_games_capped with the given
\* remaining count and seen_ids set
Ingested(rows, page, capped, remaining, seen) ==
    IF capped
    THEN LET res == InsertGamesCapped(rows, page, I(ing.mode), remaining, seen)
         IN  [rows |-> res.rows, seen |-> res.seen,
              result |-> [inserted |-> res.inserted, skipped |-> res.skipped,
                          processed |-> res.processed, cap |-> res.cap_reached,
                          raised |-> res.raised]]
    ELSE LET res == InsertGames(rows, page, I(ing.mode), ing.verbose)
         IN  [rows |-> res.rows, seen |-> seen,
              result |-> [inserted |-> res.ok, skipped |-> res.skipped,
                          processed |-> Len(page), cap |-> FALSE,
                          raised |-> res.raised]]

\* where the harness stands after a call: an exception that left the inserter
\* leaves the caller's with block too, and the page's rows are rolled back
Landed(out, pc) ==
    IF out.result.raised
    THEN [rows |-> AfterException(ing.rows, out.rows), pc |-> "raised"]
    ELSE [rows |-> out.rows, pc |-> pc]

IngestFirst ==
    /\ ing.pc = "fresh"
    /\ \E remaining \in 1..MaxRecent :
          LET out == Ingested(ing.rows, ing.page, ing.capped, remaining, {})
              at == Landed(out, "once")
          IN  ing' = [ing EXCEPT !.pc = at.pc, !.rows = at.rows,
                                 !.before = at.rows, !.seen = out.seen,
                                 !.first = out.result]

\* the same page again: in the same run (the seen_ids set carried over) or
\* in a new one (an empty set)
IngestSecond ==
    /\ ing.pc = "once"
    /\ \E remaining \in 1..MaxRecent, seen \in {ing.seen, {}} :
          LET out == Ingested(ing.rows, ing.page, ing.capped, remaining, seen)
              at == Landed(out, "twice")
          IN  ing' = [ing EXCEPT !.pc = at.pc, !.rows = at.rows,
                                 !.seen = out.seen, !.second = out.result]

IngNext ==
    \/ IngestFirst /\ UNCHANGED nvars /\ UNCHANGED svars /\ UNCHANGED rvars
                   /\ UNCHANGED <<cstep, reqs, api, rep>>
    \/ IngestSecond /\ UNCHANGED nvars /\ UNCHANGED svars /\ UNCHANGED rvars
                    /\ UNCHANGED <<cstep, reqs, api, rep>>

SpecIngest == IngInit /\ [][IngNext]_vars

SecondIsNoOp ==
    /\ ing.second.inserted = 0
    /\ ing.second.skipped = Len(ing.page)
    /\ ing.rows = ing.before

\* C3 as stated: the second ingestion of a page inserts nothing, skips every
\* record and leaves the rows alone, for insert_games and insert_games_capped
C3_ReingestAlways ==
    ing.pc = "twice" => SecondIsNoOp

\* C3, amended: the same holds for insert_games, and for insert_games_capped
\* when the first ingestion consumed the whole page
C3_ReingestWholePage ==
    (ing.pc = "twice" /\ ing.first.processed = Len(ing.page)) => SecondIsNoOp

\* a capped first ingestion that inserted both records of its page, the
\* second completing the target, and a second ingestion that skipped both
C3_Witness ==
    /\ ing.pc = "twice"
    /\ ing.capped
    /\ ing.first.inserted = 2
    /\ ing.first.cap
    /\ ing.first.processed = Len(ing.page)
    /\ ing.second.skipped = 2
    /\ ing.second.inserted = 0
    /\ ing.rows = ing.before

-----------------------------------------------------------------------------
(* The request and its retry, src/main.py lines 442-455, attempt by        *)
(* attempt; every attempt is appended to reqs.                             *)

\* what main returns (lines 548-570) for the way the run ended; -1 while it
\* runs
ExitCode ==
    CASE rpc = "done" -> 0
      [] rpc = "rejected" -> 2
      [] rpc = "interrupted" -> 130
      [] rpc = "crashed" -> 1
      [] OTHER -> 0 - 1

\* page_limit (lines 434-440)
PageLimit ==
    IF Recent /\ Remaining < args.limit THEN Remaining ELSE args.limit

\* url = build_url(end_ms=current_end, start_ms=start_ms, mode=mode,
\* limit=page_limit, descending=True), and how the attempt ended
Request(ok) ==
    [end |-> current_end, start |-> args.start_ms, mode |-> args.mode,
     limit |-> PageLimit, ok |-> ok]

\* the number of failed attempts at the end of the log
RECURSIVE TrailingFailures(_)
TrailingFailures(log) ==
    IF log = <<>> \/ log[Len(log)].ok THEN 0
    ELSE 1 + TrailingFailures(SubSeq(log, 1, Len(log) - 1))

\* the loop is left after a third failure
GivesUpLate(failures) == failures >= 3

\* the except of the retry (lines 453-455): the second failure in a row
GivesUp(failures) == failures >= 2

\* the pages the API serves in the request-level model
RetryPages == {<<g>> : g \in {GameA, GameB, GameC}}

InLoopBody ==
    /\ rpc = "loop"
    /\ ~(current_end < args.start_ms \/ (Recent /\ Remaining <= 0))

\* http_get_json raises: at line 446 the handler sleeps and retries, at
\* line 452 the loop is left
AttemptFails ==
    /\ InLoopBody
    /\ reqs' = Append(reqs, Request(FALSE))
    /\ IF GivesUp(TrailingFailures(reqs'))
       THEN Leave("retry failed")
       ELSE UNCHANGED <<rpc, stop>>
    /\ UNCHANGED <<args, current_end, total_inserted, pages, seen_ids, last, rows0>>
    /\ UNCHANGED svars

\* http_get_json returns, at the first attempt or at the retry
AttemptAnswers ==
    /\ rpc = "loop"
    /\ IF InLoopBody
       THEN /\ reqs' = Append(reqs, Request(TRUE))
            /\ \/ EmptyPage
               \/ \E data \in RetryPages : IngestPage(data)
       ELSE LoopLeft /\ UNCHANGED reqs

RetryNext ==
    \/ rpc = "schema" /\ SchemaStep /\ UNCHANGED nvars /\ UNCHANGED rvars /\ UNCHANGED xvars
    \/ LoopStart /\ UNCHANGED nvars /\ UNCHANGED xvars
    \/ AttemptFails /\ UNCHANGED nvars /\ UNCHANGED <<ing, cstep, api, rep>>
    \/ AttemptAnswers /\ UNCHANGED nvars /\ UNCHANGED <<ing, cstep, api, rep>>

RetryInit ==
    /\ Init
    /\ orig \in {NoTable, Table(CreateColumnsRanksLast,
           {Project(rec, CreateColumnsRanksLast) : rec \in {x \in LegacyPool : x.id = "a"}})}
    /\ args.max_pages = 0
    /\ args.recent_count \in {0, MaxRecent}

SpecRetry == RetryInit /\ [][RetryNext]_vars

SameRequest(a, b) ==
    /\ a.end = b.end
    /\ a.start = b.start
    /\ a.mode = b.mode
    /\ a.limit = b.limit

\* a failed request is followed by the same request and by nothing else; two
\* failures in a row end the loop
OneRetry ==
    /\ \A i \in 1..Len(reqs) - 1 :
          ~reqs[i].ok => SameRequest(reqs[i], reqs[i + 1])
    /\ \A i \in 2..Len(reqs) :
          (~reqs[i - 1].ok /\ ~reqs[i].ok) =>
              /\ i = Len(reqs)
              /\ rpc = "done"
              /\ stop = "retry failed"
    /\ (rpc = "done" /\ stop = "retry failed") => TrailingFailures(reqs) = 2

\* the run that gave up ended normally and kept the completed pages
GaveUpGracefully ==
    (rpc = "done" /\ stop = "retry failed") =>
        /\ ExitCode = 0
        /\ work = disk
        /\ Cardinality(disk.games.rows) = rows0 + total_inserted
        /\ pages <= Len(reqs) - 2

TimesRequested(e) == Cardinality({i \in 1..Len(reqs) : reqs[i].end = e})

-----------------------------------------------------------------------------
(* KeyboardInterrupt: it is not an Exception, so no except clause of       *)
(* extract_row or of the inserters catches it; it leaves the with block of *)
(* line 425 (rollback) and main returns 130 (lines 565-567).               *)

Interrupted(committed, uncommitted) ==
    /\ disk' = AfterException(committed, uncommitted)
    /\ work' = disk'
    /\ inTx' = FALSE
    /\ rpc' = "interrupted"

\* inside ensure_schema, at any statement
InterruptSchema ==
    /\ rpc = "schema"
    /\ spc \in MidMigration \cup {"idle"}
    /\ Interrupted(disk, work)
    /\ stop' = "schema"
    /\ spc' = "failed"
    /\ failedAt' = spc
    /\ UNCHANGED <<calls, orig, snap>>
    /\ UNCHANGED <<args, current_end, total_inserted, pages, seen_ids, last, rows0>>

\* during a request, the back-off before the retry or the inter-page delay:
\* no statement of a page is pending.  (Between the commit of a page and the
\* update of the counters the store is the same as here.)
InterruptLoop ==
    /\ rpc = "loop"
    /\ Interrupted(disk, work)
    /\ stop' = "request or delay"
    /\ UNCHANGED <<spc, calls, orig, snap, failedAt>>
    /\ UNCHANGED <<args, current_end, total_inserted, pages, seen_ids, last, rows0>>

\* in the middle of a page: the inserter has executed the INSERTs of the
\* first k items and has not committed; last records the page in flight
InterruptPage(data) ==
    /\ InLoopBody
    /\ pages < MaxIter
    /\ \E k \in 1..Len(data) :
          LET part == SubSeq(data, 1, k)
              res == IF Recent
                     THEN InsertGamesCapped(work.games.rows, part, I(args.mode),
                                            Remaining, seen_ids)
                     ELSE InsertGames(work.games.rows, part, I(args.mode),
                                      args.verbose)
              inserted == Cardinality(res.rows) - Cardinality(work.games.rows)
          IN  /\ ~res.raised
              /\ Recent => res.processed = k
              /\ Interrupted(disk, [work EXCEPT !.games.rows = res.rows])
              /\ last' = [len |-> Len(data), inserted |-> inserted,
                          skipped |-> k - inserted, processed |-> k,
                          cap |-> FALSE, page |-> data]
    /\ stop' = "page"
    /\ UNCHANGED <<spc, calls, orig, snap, failedAt>>
    /\ UNCHANGED <<args, current_end, total_inserted, pages, seen_ids, rows0>>

InterruptPages == {<<GameA>>, <<GameB, GameC>>, <<GameC, GameA2>>, <<GameNoId, GameB>>}

InterruptNext ==
    \/ rpc = "schema" /\ SchemaStep /\ UNCHANGED nvars /\ UNCHANGED rvars /\ UNCHANGED xvars
    \/ LoopStart /\ UNCHANGED nvars /\ UNCHANGED xvars
    \/ SchemaAbort /\ UNCHANGED nvars /\ UNCHANGED xvars
    \/ Iterate(InterruptPages) /\ UNCHANGED nvars /\ UNCHANGED xvars
    \/ InterruptSchema /\ UNCHANGED nvars /\ UNCHANGED xvars
    \/ InterruptLoop /\ UNCHANGED nvars /\ UNCHANGED xvars
    \/ \E data \in InterruptPages : InterruptPage(data) /\ UNCHANGED nvars /\ UNCHANGED xvars

SpecInterrupt == Init /\ [][InterruptNext]_vars

\* C13: an interrupt at any point leaves the committed store as it was
\* before the interrupt: the rows from before the run (migrated if the
\* schema required it) plus total_inserted rows of completed pages, none of
\* the page in flight; the process exits with code 130
C13_InterruptSafe ==
    /\ [](rpc = "interrupted" =>
            /\ ExitCode = 130
            /\ work = disk
            /\ orig.exists =>
                  /\ disk.games.exists
                  /\ \A old \in orig.rows : \E new \in disk.games.rows :
                        \A c \in Range(orig.cols) \cap Range(disk.games.cols) :
                            new[c] = old[c]
                  /\ Cardinality(disk.games.rows) =
                        Cardinality(orig.rows) + total_inserted
            /\ stop # "schema" =>
                  Cardinality(disk.games.rows) = rows0 + total_inserted)
    /\ [][rpc' = "interrupted" =>
            /\ disk'.games.rows = disk.games.rows
            /\ disk'.games.exists = disk.games.exists]_vars
    /\ [][rpc # "interrupted"]_vars

\* interrupted in the second page after the INSERTs of both its records:
\* the store holds the first page's row and neither of the two
C13_Witness ==
    /\ rpc = "interrupted"
    /\ stop = "page"
    /\ pages = 1
    /\ total_inserted = 1
    /\ last.len = 2
    /\ last.processed = 2
    /\ last.inserted = 2
    /\ Cardinality(disk.games.rows) = rows0 + 1
    /\ Gid(last.page[1]) \notin Ids(disk.games.rows)
    /\ Gid(last.page[2]) \notin Ids(disk.games.rows)

-----------------------------------------------------------------------------
(* The command lines: main of src/main.py up to the call of                *)
(* fetch_and_store (lines 528-551) and the compare-levels command of       *)
(* src/analysis.py (main, lines 413-430; do_compare_levels, lines 210-307). *)

\* lines 531-550: recent mode ignores --start-ms; an end before the start is
\* refused with exit code 2 before the store is opened
MainStart ==
    /\ rpc = "main"
    /\ LET start_ms == IF args.recent_count > 0 THEN 0 ELSE args.start_ms
       IN  IF args.end_ms < start_ms
           THEN /\ rpc' = "rejected"
                /\ UNCHANGED <<args, spc, calls>>
           ELSE /\ rpc' = "schema"
                /\ args' = [args EXCEPT !.start_ms = start_ms]
                /\ spc' = "idle"
                /\ calls' = 1
    /\ UNCHANGED <<current_end, total_inserted, pages, seen_ids, last, stop, rows0>>
    /\ UNCHANGED <<disk, work, inTx, orig, snap, failedAt>>

\* bucket_level (analysis.py lines 99-102)
Bucket(level, level_bin) ==
    IF level_bin = "level10" THEN (level \div 10) * 10 ELSE level

\* the (pa, pb) pairs of one row: players bucketed level_a against players
\* bucketed level_b
Pairs(x, level_a, level_b, level_bin) ==
    {pq \in Slots \X Slots :
        /\ Bucket(x[PlayerCols(pq[1]).level], level_bin) = level_a
        /\ Bucket(x[PlayerCols(pq[2]).level], level_bin) = level_b}

RECURSIVE Instances(_, _, _, _)
Instances(rows, level_a, level_b, level_bin) ==
    IF rows = {} THEN 0
    ELSE LET x == CHOOSE y \in rows : TRUE
         IN  Cardinality(Pairs(x, level_a, level_b, level_bin))
               + Instances(rows \ {x}, level_a, level_b, level_bin)

\* the counters before the first row (lines 225-230)
NoInstances == [instances |-> 0, a_better |-> 0, b_better |-> 0, out |-> {}]

\* the two counters exchanged
TallySwapped(acc, diff_rank) ==
    IF diff_rank < 0 THEN [acc EXCEPT !.b_better = @ + 1]
    ELSE IF diff_rank > 0 THEN [acc EXCEPT !.a_better = @ + 1]
    ELSE acc

\* lines 281-284: if diff_rank < 0: a_better += 1 / elif diff_rank > 0:
\* b_better += 1
Tally(acc, diff_rank) ==
    IF diff_rank < 0 THEN [acc EXCEPT !.a_better = @ + 1]
    ELSE IF diff_rank > 0 THEN [acc EXCEPT !.b_better = @ + 1]
    ELSE acc

\* the body of "for pa in groupA: for pb in groupB" (lines 272-291) over the
\* pairs of one row; out holds the per-instance lines (id, playerA, playerB,
\* diff_rank) the CSV receives
RECURSIVE CountPairs(_, _, _)
CountPairs(x, pairs, acc) ==
    IF pairs = {} THEN acc
    ELSE LET pq == CHOOSE y \in pairs : TRUE
             diff_rank == x[PlayerCols(pq[1]).rank] - x[PlayerCols(pq[2]).rank]
             counted == Tally([acc EXCEPT !.instances = @ + 1], diff_rank)
         IN  CountPairs(x, pairs \ {pq},
                 [counted EXCEPT !.out = @ \cup
                     {[id |-> x.id, playerA |-> pq[1], playerB |-> pq[2],
                       diff_rank |-> diff_rank]}])

\* "for row in conn.execute(sql, params)" (lines 246-291)
RECURSIVE CompareRows(_, _, _, _, _)
CompareRows(rows, level_a, level_b, level_bin, acc) ==
    IF rows = {} THEN acc
    ELSE LET x == CHOOSE y \in rows : TRUE
         IN  CompareRows(rows \ {x}, level_a, level_b, level_bin,
                 CountPairs(x, Pairs(x, level_a, level_b, level_bin), acc))

\* analysis.main with cmd = "compare-levels": equal levels print an error
\* and return (main then returns 0); otherwise the CSV is opened when --csv
\* is given, the games are read, and a missing table raises (main returns 1)
CompareLevels ==
    /\ rep.pc = "start"
    /\ rep' =
         IF rep.level_a = rep.level_b
         THEN [rep EXCEPT !.pc = "done", !.exit = 0]
         ELSE IF ~disk.games.exists
         THEN [rep EXCEPT !.pc = "done", !.wrote = rep.csv, !.exit = 1]
         ELSE LET res == CompareRows(disk.games.rows, rep.level_a, rep.level_b,
                                     rep.level_bin, NoInstances)
              IN  [rep EXCEPT !.pc = "done", !.wrote = rep.csv, !.read = TRUE,
                              !.instances = res.instances,
                              !.a_better = res.a_better,
                              !.b_better = res.b_better,
                              !.out = res.out,
                              !.exit = 0]

\* the stores a command may find: none, or rows the fetcher wrote
StoredTables ==
    {NoTable} \cup
    {Table(INSERT_COLUMNS, {Project(rec, INSERT_COLUMNS) : rec \in rs}) :
        rs \in SUBSET LegacyPool}

\* --start-ms / --end-ms pairs, one of them with the end before the start
CliWindows ==
    Windows \cup {[start_ms |-> 1002500, end_ms |-> 998000]}

ReportLevels == {10300, 10301, 10401}

CliInit ==
    /\ NormIdle
    /\ IngIdle
    /\ CursorIdle
    /\ EnvIdle
    /\ orig \in StoredTables
    /\ disk = [games |-> orig, games_new |-> NoTable]
    /\ work = disk
    /\ inTx = FALSE
    /\ spc = "off"
    /\ calls = 0
    /\ snap = NoTable
    /\ failedAt = ""
    /\ current_end = 0
    /\ total_inserted = 0
    /\ pages = 0
    /\ seen_ids = {}
    /\ last = NoPage
    /\ stop = ""
    /\ rows0 = 0
    /\ \/ /\ rpc = "main"
          /\ ReportIdle
          /\ \E w \in CliWindows, rc \in {0, MaxRecent} :
                args = [mode |-> 12, start_ms |-> w.start_ms, end_ms |-> w.end_ms,
                        limit |-> MaxPageLen, max_pages |-> 0,
                        recent_count |-> rc, verbose |-> FALSE]
       \/ /\ rpc = "off"
          /\ args = [mode |-> 12, start_ms |-> 0, end_ms |-> 0, limit |-> 0,
                     max_pages |-> 0, recent_count |-> 0, verbose |-> FALSE]
          /\ \E a \in ReportLevels, b \in ReportLevels,
                level_bin \in {"level", "level10"}, csv \in BOOLEAN :
                rep = [pc |-> "start", level_a |-> a, level_b |-> b,
                       level_bin |-> level_bin, csv |-> csv, read |-> FALSE,
                       wrote |-> FALSE, instances |-> 0, a_better |-> 0,
                       b_better |-> 0, out |-> {}, exit |-> 0]

CliNext ==
    \/ MainStart /\ UNCHANGED nvars /\ UNCHANGED xvars
    \/ CompareLevels /\ UNCHANGED nvars /\ UNCHANGED svars /\ UNCHANGED rvars
                     /\ UNCHANGED <<ing, cstep, reqs, api>>

SpecCli == CliInit /\ [][CliNext]_vars

\* C15: the fetcher given an end before its start exits with code 2 without
\* opening the store or issuing a request; compare-levels given equal
\* levels exits non-zero without reading games or writing a CSV
C15_InvalidInputRejected ==
    /\ (rpc \notin {"main", "off"} /\ args.end_ms < args.start_ms) =>
          /\ rpc = "rejected"
          /\ ExitCode = 2
          /\ spc = "off"
          /\ disk.games = orig
          /\ reqs = <<>>
    /\ (rep.pc = "done" /\ rep.level_a = rep.level_b) =>
          /\ rep.exit # 0
          /\ ~rep.read
          /\ ~rep.wrote

-----------------------------------------------------------------------------
(* Normalizer harness over malformed payloads: every field of a record is  *)
(* drawn present, absent, null or non-numeric; the player array is drawn    *)
(* short, long, or with one entry damaged.                                 *)

FieldKinds(n) == {I(n), Absent, Null, Bad}

GoodPlayers ==
    <<Player(I(10301), I(300), I(5)), Player(I(10302), I(100), I(0 - 5)),
      Player(I(10401), I(400), I(7)), Player(I(10301), I(200), I(0))>>

\* the second entry damaged field by field, or not an object
DamagedPlayers ==
    {[GoodPlayers EXCEPT ![2] = Player(l, sc, g)] :
        l \in FieldKinds(10302), sc \in {I(100), Absent, Bad},
        g \in {I(0 - 5), Absent, Null}}
    \cup {[GoodPlayers EXCEPT ![2].dict = FALSE]}

PlayerArrays ==
    DamagedPlayers \cup
    {<<>>, SubSeq(GoodPlayers, 1, 3), GoodPlayers \o <<GoodPlayers[1]>>}

MalformedGames ==
    {[dict |-> TRUE, id |-> id, uuid |-> uuid, modeId |-> modeId,
      startTime |-> st, endTime |-> et, players |-> ps] :
        id \in {"a", ""}, uuid \in {"u", ""}, modeId \in FieldKinds(9),
        st \in FieldKinds(1001), et \in FieldKinds(1002), ps \in PlayerArrays}

RejectInit ==
    /\ raw \in MalformedGames
    /\ rawOverride \in {Absent, I(16)}
    /\ row = Rejected
    /\ npc = "input"
    /\ SchemaIdle
    /\ RunIdle

SpecReject == RejectInit /\ [][NormNext]_vars

\* a value the row needs that int() does not take: a non-numeric string, a
\* null, or the field of a player entry that is not an object
Uncoercible(game) ==
    \/ game.modeId.k = "bad"
    \/ game.startTime.k = "bad"
    \/ (IsNone(game.startTime) /\ game.endTime.k = "bad")
    \/ \E s \in 1..Len(game.players) :
          \/ ~game.players[s].dict
          \/ game.players[s].level.k \in {"null", "bad"}
          \/ game.players[s].score.k \in {"null", "bad"}
          \/ game.players[s].gradingScore.k \in {"null", "bad"}

FieldOrZero(x) == IF x.k = "int" THEN x.v ELSE 0

-----------------------------------------------------------------------------
(* Cursor harness: lines 494-516 applied to one cursor and one page's       *)
(* oldest start time, both drawn on either side of the unit threshold.     *)

\* current_end before the page, in the unit the command line gave it
CursorVals ==
    {0, 1, 2, 500, 998000, 999000, 999500, 999999, Threshold, 1000999,
     1001000, 1001500, 1002500, 2 * Threshold}

\* oldest_start_sec of the page, as the payload gives it
OldestVals ==
    {0, 1, 2, 400, 998, 999, 1000, 1001, 1002, 1003, 999000, Threshold,
     1001500}

StartVals == {0, 998000, Threshold}

CursorInit ==
    /\ cstep \in [pc : {"page"}, cur : CursorVals, oldest : OldestVals,
                   start : StartVals, next : {0}, moved : {FALSE}]
    /\ NormIdle
    /\ SchemaIdle
    /\ rpc = "off"
    /\ args = [mode |-> 12, start_ms |-> 0, end_ms |-> 0, limit |-> 0,
               max_pages |-> 0, recent_count |-> 0, verbose |-> FALSE]
    /\ current_end = 0
    /\ total_inserted = 0
    /\ pages = 0
    /\ seen_ids = {}
    /\ last = NoPage
    /\ stop = ""
    /\ rows0 = 0
    /\ IngIdle
    /\ ReportIdle
    /\ EnvIdle

\* next_end_ms of lines 494-511; current_end = next_end_ms (line 516) unless
\* next_end_ms < start_ms breaks out first (lines 513-515)
CursorStep ==
    /\ cstep.pc = "page"
    /\ LET next_end_ms == NextEnd(cstep.cur, cstep.oldest)
       IN  cstep' = [cstep EXCEPT !.pc = "done", !.next = next_end_ms,
                                  !.moved = ~(next_end_ms < cstep.start)]
    /\ UNCHANGED <<nvars, svars, rvars, ing, reqs, api, rep>>

CursorNext == CursorStep

SpecCursor == CursorInit /\ [][CursorNext]_vars

\* proposed_end_sec >= current_end_sec (line 503)
GuardFires(cur, oldest_start_sec) ==
    to_seconds(to_ms(oldest_start_sec) - 1) >= to_seconds(cur)

-----------------------------------------------------------------------------
(* The two-page scenario: window [0, 1000], a first answer of three        *)
(* records (start times 900, 950, 950) and a second of two (100, 200).     *)

ExampleGame(id, start) == ApiGame(id, Absent, I(start), <<300, 100, 400, 200>>)

\* every order of the records within a page
Orders(games) ==
    {p \in [1..Cardinality(games) -> games] :
        \A i, j \in 1..Cardinality(games) : i # j => p[i] # p[j]}

\* the answers to the k-th request
ExamplePages(k) ==
    IF k = 1
    THEN Orders({ExampleGame("p", 900), ExampleGame("q", 950),
                 ExampleGame("r", 950)})
    ELSE Orders({ExampleGame("s", 100), ExampleGame("t", 200)})

ExampleInit ==
    /\ NormIdle
    /\ orig \in {NoTable, Table(CreateColumnsRanksLast,
           {Project(rec, CreateColumnsRanksLast) : rec \in {x \in LegacyPool : x.id = "a"}})}
    /\ disk = [games |-> orig, games_new |-> NoTable]
    /\ work = disk
    /\ inTx = FALSE
    /\ spc = "idle"
    /\ calls = 1
    /\ snap = NoTable
    /\ failedAt = ""
    /\ IngIdle
    /\ CursorIdle
    /\ ReportIdle
    /\ EnvIdle
    /\ rpc = "schema"
    /\ \E md \in KnownModes, vb \in BOOLEAN :
          args = [mode |-> md, start_ms |-> 0, end_ms |-> 1000, limit |-> 3,
                  max_pages |-> 0, recent_count |-> 0, verbose |-> vb]
    /\ current_end = 0
    /\ total_inserted = 0
    /\ pages = 0
    /\ seen_ids = {}
    /\ last = NoPage
    /\ stop = ""
    /\ rows0 = 0

\* one iteration: the request (logged), its answer, the page, the boundary
ExampleRequest ==
    /\ InLoopBody
    /\ reqs' = Append(reqs, Request(TRUE))
    /\ IF pages < 2
       THEN \E data \in ExamplePages(pages + 1) : IngestPage(data)
       ELSE EmptyPage

ExampleNext ==
    \/ rpc = "schema" /\ SchemaStep /\ UNCHANGED nvars /\ UNCHANGED rvars /\ UNCHANGED xvars
    \/ LoopStart /\ UNCHANGED nvars /\ UNCHANGED xvars
    \/ ExampleRequest /\ UNCHANGED nvars /\ UNCHANGED <<ing, cstep, api, rep>>

SpecExample == ExampleInit /\ [][ExampleNext]_vars

\* the run of the scenario up to the cursor of its second request
ExampleRun(second_end) ==
    /\ Len(reqs) <= 2
    /\ Len(reqs) >= 1 => reqs[1].end = 1000
    /\ pages = 1 => total_inserted = 3 /\ last.inserted = 3
    /\ Len(reqs) = 2 => reqs[2].end = second_end
    /\ rpc = "done" =>
          /\ stop = "start boundary"
          /\ pages = 2
          /\ total_inserted = 5
          /\ Cardinality(disk.games.rows) = rows0 + 5

\* C18 as stated: page 1 inserts 3 rows, page 2 is requested with end=899,
\* after page 2 the cursor falls below the window start and the run stops
\* with 5 rows inserted
C18_ExampleAsStated == ExampleRun(899)

\* C18, amended: page 1 inserts 3 rows, page 2 is requested with end=0 (the
\* cursor computed from start=900 is 899999, which the progress guard
\* replaces), after page 2 the cursor falls below the window start and the
\* run stops with 5 rows inserted
C18_ExampleGuarded == ExampleRun(0)

\* the run has ended after its two requests
C18_Witness ==
    /\ rpc = "done"
    /\ Len(reqs) = 2
    /\ reqs[2].end = 0
    /\ pages = 2
    /\ total_inserted = 5
    /\ stop = "start boundary"

-----------------------------------------------------------------------------
(* Window-mode runs over pages that hold records the normalizer rejects.   *)

\* a record with neither startTime nor endTime
GameNoTime ==
    [ApiGame("g", I(12), Absent, <<100, 200, 300, 400>>) EXCEPT !.endTime = Absent]

\* a record without startTime whose endTime is null
GameNullTime ==
    [ApiGame("h", I(12), Absent, <<100, 200, 300, 400>>) EXCEPT !.endTime = Null]

SkipGames == {GameA, GameB, GameC, GameNoId, GameNoTime, GameNullTime}

SkipPages == UNION {[1..n -> SkipGames] : n \in 1..MaxPageLen}

SkipInit ==
    /\ RetryInit
    /\ args.recent_count = 0
    /\ args.start_ms = 998000
    /\ args.end_ms = 1002500

SkipRequest ==
    /\ InLoopBody
    /\ reqs' = Append(reqs, Request(TRUE))
    /\ \/ EmptyPage
       \/ \E data \in SkipPages : IngestPage(data)

SkipNext ==
    \/ rpc = "schema" /\ SchemaStep /\ UNCHANGED nvars /\ UNCHANGED rvars /\ UNCHANGED xvars
    \/ LoopStart /\ UNCHANGED nvars /\ UNCHANGED xvars
    \/ SkipRequest /\ UNCHANGED nvars /\ UNCHANGED <<ing, cstep, api, rep>>

SpecSkip == SkipInit /\ [][SkipNext]_vars

\* the records of a page the normalizer accepts
ValidItems(data, mode_override) ==
    SelectSeq(data, LAMBDA g : ExtractRow(g, mode_override).ok)

\* C19: when a page holds a rejected record, the record is counted as
\* skipped and the run goes on to the next request whenever the valid records
\* of the page leave a cursor that is not below the window start
C19_RejectedNeverStops ==
    [][pages' = pages + 1 =>
         LET page == last'.page
             valid == ValidItems(page, I(args.mode))
         IN  (Len(valid) < Len(page) /\ valid # <<>>
              /\ ~(NextEnd(current_end, OldestStartSec(valid)) < args.start_ms))
             => /\ rpc' = "loop"
                /\ last'.skipped >= Len(page) - Len(valid)]_vars

-----------------------------------------------------------------------------
(* Window-mode runs against an API that answers as build_url asks: the     *)
(* most recent records, at most limit of them, with a start time between   *)
(* the window start and the cursor.                                        *)

\* a second record at the start second of GameB
GameD == ApiGame("d", I(12), I(1001), <<400, 300, 200, 100>>)

HonestPool == {GameA, GameB, GameC, GameD}

MaxLimit == 2

StartMs(g) == to_ms(g.startTime.v)

\* the records the API holds in [start_ms, cursor]
InRange(cursor) ==
    {g \in api : StartMs(g) >= args.start_ms /\ StartMs(g) <= cursor}

\* the answers to .../games/{end_ms}/{start_ms}?limit=..&descending=true:
\* most recent first, records of one start second in any order
HonestAnswers(cursor, limit) ==
    LET held == InRange(cursor)
        n == IF Cardinality(held) < limit THEN Cardinality(held) ELSE limit
    IN  {data \in [1..n -> held] :
            /\ \A i, j \in 1..n : i < j =>
                  /\ data[i] # data[j]
                  /\ StartMs(data[i]) >= StartMs(data[j])
            /\ \A g \in held : (\A i \in 1..n : data[i] # g) =>
                  \A i \in 1..n : StartMs(g) <= StartMs(data[i])}

HonestInit ==
    /\ NormIdle
    /\ orig \in {NoTable, Table(CreateColumnsRanksLast,
           {Project(rec, CreateColumnsRanksLast) : rec \in {x \in LegacyPool : x.id = "a"}})}
    /\ disk = [games |-> orig, games_new |-> NoTable]
    /\ work = disk
    /\ inTx = FALSE
    /\ spc = "idle"
    /\ calls = 1
    /\ snap = NoTable
    /\ failedAt = ""
    /\ IngIdle
    /\ CursorIdle
    /\ ReportIdle
    /\ reqs = <<>>
    /\ api \in SUBSET HonestPool
    /\ rpc = "schema"
    /\ \E lim \in 1..MaxLimit :
          args = [mode |-> 12, start_ms |-> 998000, end_ms |-> 1002500,
                  limit |-> lim, max_pages |-> 0, recent_count |-> 0,
                  verbose |-> FALSE]
    /\ current_end = 0
    /\ total_inserted = 0
    /\ pages = 0
    /\ seen_ids = {}
    /\ last = NoPage
    /\ stop = ""
    /\ rows0 = 0

\* one iteration; no request fails
HonestRequest ==
    /\ InLoopBody
    /\ reqs' = Append(reqs, Request(TRUE))
    /\ IF InRange(current_end) = {}
       THEN EmptyPage
       ELSE \E data \in HonestAnswers(current_end, PageLimit) : IngestPage(data)

HonestNext ==
    \/ rpc = "schema" /\ SchemaStep /\ UNCHANGED nvars /\ UNCHANGED rvars /\ UNCHANGED xvars
    \/ LoopStart /\ UNCHANGED nvars /\ UNCHANGED xvars
    \/ HonestRequest /\ UNCHANGED nvars /\ UNCHANGED <<ing, cstep, api, rep>>

SpecHonest == HonestInit /\ [][HonestNext]_vars

\* C20: when a window-mode run against such an API has ended, every valid
\* record the API holds with a start time in [start_ms, end_ms] is in the
\* store, for every page limit
C20_WindowComplete ==
    rpc = "done" =>
        \A g \in api :
            (/\ ExtractRow(g, I(args.mode)).ok
             /\ StartMs(g) >= args.start_ms
             /\ StartMs(g) <= args.end_ms)
            => g.id \in Ids(disk.games.rows)

-----------------------------------------------------------------------------
(* compare-levels over stores the fetcher wrote: matches with several      *)
(* players per level, tied scores, levels inside one bucket of ten.        *)

HeadGame(id, levels, scores) ==
    [dict |-> TRUE, id |-> id, uuid |-> "", modeId |-> I(12),
     startTime |-> I(1001), endTime |-> Absent,
     players |-> [s \in Slots |-> Player(I(levels[s]), I(scores[s]), I(0))]]

HeadGames ==
    {HeadGame("a", <<10301, 10401, 10301, 10402>>, <<250, 250, 300, 250>>),
     HeadGame("b", <<10401, 10401, 10301, 10300>>, <<300, 100, 400, 200>>),
     HeadGame("c", <<10301, 10301, 10301, 10301>>, <<250, 250, 250, 250>>),
     HeadGame("d", <<10305, 10409, 10300, 10401>>, <<250, 250, 250, 250>>)}

\* the tables insert_games leaves after ingesting some of the matches
HeadStores ==
    {Table(INSERT_COLUMNS, {RowRecord(ExtractRow(g, I(12))) : g \in gs}) :
        gs \in SUBSET HeadGames}

HeadLevels == {10300, 10301, 10400, 10401}

HeadInit ==
    /\ NormIdle
    /\ IngIdle
    /\ CursorIdle
    /\ EnvIdle
    /\ orig \in HeadStores
    /\ disk = [games |-> orig, games_new |-> NoTable]
    /\ work = disk
    /\ inTx = FALSE
    /\ spc = "off"
    /\ calls = 0
    /\ snap = NoTable
    /\ failedAt = ""
    /\ current_end = 0
    /\ total_inserted = 0
    /\ pages = 0
    /\ seen_ids = {}
    /\ last = NoPage
    /\ stop = ""
    /\ rows0 = 0
    /\ rpc = "off"
    /\ args = [mode |-> 12, start_ms |-> 0, end_ms |-> 0, limit |-> 0,
               max_pages |-> 0, recent_count |-> 0, verbose |-> FALSE]
    /\ \E a \in HeadLevels, b \in HeadLevels,
          level_bin \in {"level", "level10"}, csv \in BOOLEAN :
          rep = [pc |-> "start", level_a |-> a, level_b |-> b,
                 level_bin |-> level_bin, csv |-> csv, read |-> FALSE,
                 wrote |-> FALSE, instances |-> 0, a_better |-> 0,
                 b_better |-> 0, out |-> {}, exit |-> 0]

HeadNext ==
    CompareLevels /\ UNCHANGED nvars /\ UNCHANGED svars /\ UNCHANGED rvars
                  /\ UNCHANGED <<ing, cstep, reqs, api>>

SpecHead == HeadInit /\ [][HeadNext]_vars

\* one entry per match and per (bucket-A player, bucket-B player) of it
HeadPairs(rows, level_a, level_b, level_bin) ==
    {[id |-> t[1].id, playerA |-> t[2], playerB |-> t[3],
      diff_rank |-> t[1][PlayerCols(t[2]).rank] - t[1][PlayerCols(t[3]).rank]] :
        t \in {u \in rows \X Slots \X Slots :
                  /\ Bucket(u[1][PlayerCols(u[2]).level], level_bin) = level_a
                  /\ Bucket(u[1][PlayerCols(u[3]).level], level_bin) = level_b}}

\* C21: compare-levels with different levels gives every (bucket-A player,
\* bucket-B player) pair of a match exactly one instance with diff_rank =
\* rank of A minus rank of B, counts it in b_better when diff_rank > 0 and in
\* a_better when diff_rank < 0, and on a store written by ingestion
\* a_better + b_better = instances
C21_HeadToHead ==
    (rep.pc = "done" /\ rep.level_a # rep.level_b) =>
        LET expected == HeadPairs(disk.games.rows, rep.level_a, rep.level_b,
                                  rep.level_bin)
        IN  /\ rep.out = expected
            /\ rep.instances = Cardinality(expected)
            /\ rep.b_better = Cardinality({e \in expected : e.diff_rank > 0})
            /\ rep.a_better = Cardinality({e \in expected : e.diff_rank < 0})
            /\ rep.a_better + rep.b_better = rep.instances

\* buckets of ten over a store with two matches that each hold two players
\* of either bucket, one of the matches with four equal scores
C21_Witness ==
    /\ rep.pc = "done"
    /\ rep.level_a = 10300 /\ rep.level_b = 10400
    /\ rep.level_bin = "level10"
    /\ Ids(disk.games.rows) = {"a", "d"}
    /\ rep.instances = 8
    /\ rep.a_better = 7
    /\ rep.b_better = 1

\* the items of a page the normalizer or the primary key turns away
BadItems(page, rows) ==
    {k \in 1..Len(page) :
        \/ ~ExtractRow(page[k], I(ing.mode)).ok
        \/ Gid(page[k]) \in Ids(rows)}

\* C11: a bad item (no identifier, three players, a non-numeric score, not
\* an object, a duplicate key) never makes insert_games or
\* insert_games_capped raise, in verbose and non-verbose mode; it is counted
\* as skipped and, unless the cap ends the page, every item is processed
C11_BadItemIsolated ==
    /\ ing.pc # "raised"
    /\ ~ing.first.raised
    /\ ing.pc = "once" =>
          /\ ing.first.skipped >=
                Cardinality({k \in BadItems(ing.page, ing.before \ ing.rows) :
                                k <= ing.first.processed})
          /\ ing.first.inserted + ing.first.skipped = ing.first.processed
          /\ (~ing.first.cap => ing.first.processed = Len(ing.page))

\* C14: every row ingestion stores has a mode among 9, 12 and 16, whatever
\* modeId the payload carries and whatever override is supplied
C14_ModeKnown ==
    \A x \in ing.rows : x.mode \in KnownModes

=============================================================================
